---- MODULE Spec2Model ----
(***************************************************************************)
(* Order checkout and payment reconciliation of admin-igiti.               *)
(*                                                                         *)
(*   src/app/api/[storeId]/checkout/route.ts   POST, paymentWebhook        *)
(*   src/app/api/webhook/route.ts              POST                        *)
(*   src/unnamed/part_000                      the Prisma schema           *)
(*                                                                         *)
(* The storage engine is MySQL behind Prisma (schema lines 5-9).  An       *)
(* interactive $transaction reads through a consistent snapshot and sees   *)
(* its own writes; an UPDATE takes the row's lock and holds it until the   *)
(* transaction ends; a statement outside a transaction commits by itself.  *)
(***************************************************************************)
EXTENDS Integers, Sequences, FiniteSets, TLC

\* ---------------------------------------------------------------- bounds
MaxStock == 2      \* the products' initial inStock is drawn from 0..MaxStock
DeepStock == 4     \* ... from 0..DeepStock where requests are handled in turn
MaxQty   == 2      \* a cart line asks for 1..MaxQty units
MaxCart  == 2      \* a cart holds 0..MaxCart lines
MaxInFlight == 2   \* requests being handled at the same time

\* ------------------------------------------------------------- universes
Products       == {"P1", "P2"}            \* the Product rows of the store
UnknownProduct == "PX"                    \* an id no Product row carries
ProductIds     == Products \cup {UnknownProduct}

Checkouts == {"c1", "c2"}                 \* checkout requests (one call each)
Hooks     == {"h1", "h2"}                 \* deliveries to /api/webhook
Fallbacks == {"f1"}                       \* calls of paymentWebhook

OrderIds == 1 .. Cardinality(Checkouts)   \* ids the store can hand out
NoOrder  == 0                             \* a token that names no order
Tokens   == OrderIds \cup {NoOrder}

CartItem == [productId : ProductIds, quantity : 1 .. MaxQty]
Carts    == UNION {[1 .. n -> CartItem] : n \in 0 .. MaxCart}

Signatures == {"processor", "forged"}     \* who computed Stripe-Signature
EventTypes == {"checkout.session.completed", "payment_intent.created"}

VARIABLES
    inStock,        \* Product.inStock, committed value per product
    orders,         \* Order rows in creation order; the index is the id
    shippingRows,   \* number of ShippingDetails rows
    co,             \* per checkout request: position and locals of POST
    wh,             \* per delivery: position and locals of the webhook POST
    fb,             \* per paymentWebhook call: whether it has run
    cur,            \* the inputs of the requests under observation, by slot
    pre             \* the storage as it was when the observed request arrived

vars == <<inStock, orders, shippingRows, co, wh, fb, cur, pre>>

\* The rows of storage, as one value.
Storage == [inStock |-> inStock, orders |-> orders, shippingRows |-> shippingRows]

\* ------------------------------------------------------- Number arithmetic
\* A JavaScript Number is an IEEE 754 binary64.  The positive ones are kept
\* as [m, e]: m the 53 bits of the significand, first bit 1, most significant
\* first, and the value is m * 2^e; zero has no bits.  A natural number of
\* any size is a sequence of bits, most significant first.
Precision == 53
Slack     == 10     \* bits a dividend is extended by before it is divided

NumberZero == [m |-> <<>>, e |-> 0]

Zeros(k) == [i \in 1 .. k |-> 0]

\* b without its leading zeros
Strip(b) ==
    IF \A i \in 1 .. Len(b) : b[i] = 0 THEN <<>>
    ELSE LET first == CHOOSE i \in 1 .. Len(b) :
                          b[i] = 1 /\ \A j \in 1 .. (i - 1) : b[j] = 0
         IN SubSeq(b, first, Len(b))

\* The bits of a small natural number
Bits(n) == Strip([i \in 1 .. 30 |-> (n \div 2^(30 - i)) % 2])

\* The arithmetic goes through the bits a byte at a time.
ByteBits(x) == [i \in 1 .. 8 |-> (x \div 2^(8 - i)) % 2]
Padded(b)   == Zeros((8 - (Len(b) % 8)) % 8) \o b
Byte(b, j)  ==
    128 * b[8 * j - 7] + 64 * b[8 * j - 6] + 32 * b[8 * j - 5] + 16 * b[8 * j - 4]
      + 8 * b[8 * j - 3] + 4 * b[8 * j - 2] + 2 * b[8 * j - 1] + b[8 * j]

\* b * k for a small k, from the last byte up with a carry
RECURSIVE MulFrom(_, _, _, _)
MulFrom(b, k, j, carry) ==
    IF j = 0 THEN Bits(carry)
    ELSE LET v == Byte(b, j) * k + carry IN
           MulFrom(b, k, j - 1, v \div 256) \o ByteBits(v % 256)
MulBits(b, k) == Strip(MulFrom(Padded(b), k, Len(Padded(b)) \div 8, 0))

\* a + b for bit sequences of the same length, from the last byte up
RECURSIVE AddFrom(_, _, _, _)
AddFrom(a, b, j, carry) ==
    IF j = 0 THEN Bits(carry)
    ELSE LET v == Byte(a, j) + Byte(b, j) + carry IN
           AddFrom(a, b, j - 1, v \div 256) \o ByteBits(v % 256)
AddBits(a, b) ==
    LET n == 8 + (IF Len(a) > Len(b) THEN Len(a) ELSE Len(b))
        w == n - (n % 8)
    IN Strip(AddFrom(Zeros(w - Len(a)) \o a, Zeros(w - Len(b)) \o b, w \div 8, 0))

\* b divided by a small d, from the first byte down: quotient and remainder
RECURSIVE DivFrom(_, _, _, _, _)
DivFrom(b, d, j, rem, q) ==
    IF 8 * j > Len(b) THEN [q |-> Strip(q), r |-> rem]
    ELSE LET v == 256 * rem + Byte(b, j) IN
           DivFrom(b, d, j + 1, v % d, q \o ByteBits(v \div d))
DivBits(b, d) == DivFrom(Padded(b), d, 1, 0, <<>>)

\* The Number nearest to b * 2^e, or to a value between b * 2^e and
\* (b + 1) * 2^e when sticky, ties to the even significand.
RoundToNumber(b, sticky, e) ==
    LET n == Len(b) IN
      IF n = 0 THEN NumberZero
      ELSE IF n <= Precision
      THEN [m |-> b \o Zeros(Precision - n), e |-> e - (Precision - n)]
      ELSE LET top  == SubSeq(b, 1, Precision)
               rest == sticky \/ \E i \in (Precision + 2) .. n : b[i] = 1
               up   == b[Precision + 1] = 1 /\ (rest \/ top[Precision] = 1)
               inc  == IF up THEN AddBits(top, <<1>>) ELSE top
           IN [m |-> SubSeq(inc, 1, Precision),
               e |-> e + (n - Precision) + (Len(inc) - Precision)]

\* x * k and x / d for a Number x and a small integer, x + y for Numbers
NumberTimes(x, k) == RoundToNumber(MulBits(x.m, k), FALSE, x.e)

NumberOver(x, d) ==
    LET qr == DivBits(x.m \o Zeros(Slack), d) IN
      RoundToNumber(qr.q, qr.r # 0, x.e - Slack)

NumberPlus(x, y) ==
    IF x.m = <<>> THEN y
    ELSE IF y.m = <<>> THEN x
    ELSE LET e == IF x.e < y.e THEN x.e ELSE y.e IN
           RoundToNumber(AddBits(x.m \o Zeros(x.e - e), y.m \o Zeros(y.e - e)),
                         FALSE, e)

\* Decimal.toNumber() of a price held as a whole number of cents: the Number
\* nearest to cents / 100
ToNumber(cents) == NumberOver(RoundToNumber(Bits(cents), FALSE, 0), 100)

\* Product.price, a Decimal column, in cents: 19.99 and 8.95
Price == [p \in Products |-> IF p = "P1" THEN 1999 ELSE 895]

\* unit_amount: product.price.toNumber() * 100
UnitAmount == [p \in Products |-> NumberTimes(ToNumber(Price[p]), 100)]

\* line_items.reduce((total, item) => total + item.unit_amount * item.quantity, 0)
RECURSIVE Reduce(_, _)
Reduce(items, n) ==
    IF n = 0 THEN NumberZero
    ELSE NumberPlus(Reduce(items, n - 1),
                    NumberTimes(UnitAmount[items[n].productId], items[n].quantity))

\* totalAmount: the reduced line items / 100, for every cart of existing
\* products
KnownCarts  == {products \in Carts :
                   \A k \in 1 .. Len(products) : products[k].productId \in Products}
TotalAmount == [products \in KnownCarts |->
                   NumberOver(Reduce(products, Len(products)), 100)]

\* ------------------------------------------------------------ observation
\* The handlers keep nothing of a request once they have answered it.  What a
\* property needs of a request, its input and the response it got, is
\* recorded beside the program: watch = "none" records nothing, "last"
\* records the arriving request and the storage it finds (requests handled
\* one at a time), "all" records the arriving request beside the ones
\* recorded before it.  res is the response, Pending until there is one;
\* call is the request the handler made of the payment processor, and the
\* reply it got, NoCall if it made none.
Pending == [status |-> 0, body |-> "pending", logged |-> "none"]
NoCall  == [payload |-> [orderId |-> NoOrder, amount |-> NumberZero],
            reply |-> "none"]

Observed(watch, id, entry) ==
    CASE watch = "last" -> [x \in {id} |-> entry]
      [] watch = "all"  -> [x \in DOMAIN cur \cup {id} |-> IF x = id THEN entry ELSE cur[x]]
      [] OTHER          -> cur

Observe(watch, id, req, res) ==
    /\ cur' = Observed(watch, id, [req |-> req, res |-> res, call |-> NoCall])
    /\ pre' = IF watch = "last" THEN Storage ELSE pre

\* The response of an observed request.
Answered(id, res) ==
    IF id \in DOMAIN cur THEN [cur EXCEPT ![id].res = res] ELSE cur

\* The response of an observed request that called the payment processor.
AnsweredAfterCall(id, res, payload, reply) ==
    IF id \in DOMAIN cur
    THEN [cur EXCEPT ![id].res = res,
                     ![id].call = [payload |-> payload, reply |-> reply]]
    ELSE cur

\* ------------------------------------------------------- checkout helpers
IdleCheckout ==
    [pc |-> "idle", products |-> <<>>, i |-> 0, product |-> 0,
     view |-> [p \in Products |-> 0], locks |-> {}, order |-> NoOrder,
     totalAmount |-> NumberZero]

\* What the body of a checkout response is: NextResponse.json({ url }),
\* NextResponse.json({ error: error.message }), or the plain text of
\* new NextResponse("Products are required" / "Shipping details are required")
BodyForm(result) ==
    CASE result = "url" -> "json:url"
      [] result \in {"ProductsRequired", "ShippingRequired"} -> "text"
      [] OTHER -> "json:error"

\* NextResponse.json({ url }) or NextResponse.json({ error }, { status: 400 }),
\* and "Products are required" / "Shipping details are required" with 400.
\* body names the message: the text the handler wrote itself, or, for
\* DbError and ProcessorError, text that came from the storage engine or
\* from the payment processor (flutterwaveData.message, an exception's
\* message) and that the handler passes on as it is.
CheckoutResponse(result) ==
    [status |-> IF result = "url" THEN 200 ELSE 400, body |-> result,
     form |-> BodyForm(result),
     logged |-> IF result \in {"url", "ProductsRequired", "ShippingRequired"}
                THEN "none" ELSE result]

\* if (!products || products.length === 0) / if (!shippingDetails)
Validate(products, shipping) ==
    IF Len(products) = 0 THEN "ProductsRequired"
    ELSE IF ~shipping THEN "ShippingRequired"
    ELSE "ok"

\* The check lets through a cart line one unit above the stock.
NotEnoughStockOffByOne(stock, quantity) == stock + 1 < quantity

\* if (product.inStock < productData.quantity) throw
NotEnoughStock(stock, quantity) == stock < quantity

\* The update takes one unit whatever the line asks for.
DecrementByOne(stock, quantity) == stock - 1

\* data: { inStock: product.inStock - productData.quantity }
Decrement(stock, quantity) == stock - quantity

\* A row is locked by the transaction that updated it, until it ends.
InTx(c) == co[c].pc \in {"find", "update", "create"}
LockedByOther(c, p) == \E d \in Checkouts \ {c} : InTx(d) /\ p \in co[d].locks

\* The read finds the committed row, not what the transaction wrote.
TxReadCommitted(c, p) == inStock[p]

\* tx.product.findUnique: the row as the transaction sees it, its own
\* earlier writes included
TxRead(c, p) == co[c].view[p]

\* The transaction ends without committing: the callback threw, and the
\* catch answers with the error.
Rollback(c, why) ==
    /\ co' = [co EXCEPT ![c] = [IdleCheckout EXCEPT !.pc = "done"]]
    /\ cur' = Answered(c, CheckoutResponse(why))

\* orderItems: { create: products.map(...) }: one OrderItem per cart line
OrderItems(products) ==
    [k \in 1 .. Len(products) |->
        [productId |-> products[k].productId, quantity |-> products[k].quantity]]

\* tx.order.create({ data: { isPaid: false, orderItems, shippingDetailsId } })
NewOrder(products, shippingId) ==
    [isPaid |-> FALSE, orderItems |-> OrderItems(products),
     shippingDetailsId |-> shippingId]

\* What the transaction's writes leave in Product.inStock when it commits.
Committed(c) ==
    [p \in Products |-> IF p \in co[c].locks THEN co[c].view[p] ELSE inStock[p]]

\* Whatever the processor replies, the call is taken to have succeeded.
PaymentResultIgnored(flutterwave) == "url"

\* const paymentPayload = { tx_ref, amount, ..., meta: { orderId: order.id } }
PaymentPayload(c) == [orderId |-> co[c].order, amount |-> co[c].totalAmount]

\* flutterwaveData.status !== "success" throws; so does a failed fetch
PaymentResult(flutterwave) ==
    IF flutterwave = "success" THEN "url" ELSE "ProcessorError"

FlutterwaveReplies == {"success", "error", "unreachable"}

\* ------------------------------------------------------ checkout: POST
\* The request arrives: validation, then the transaction opens.
CheckoutBegin(c, products, shipping, watch) ==
    /\ co[c].pc = "idle"
    /\ LET v == Validate(products, shipping) IN
         /\ co' = [co EXCEPT ![c] =
                  IF v # "ok"
                  THEN [IdleCheckout EXCEPT !.pc = "done"]
                  ELSE [IdleCheckout EXCEPT !.pc = "find", !.products = products,
                           !.i = 1, !.view = inStock]]
         /\ Observe(watch, c, [products |-> products, shipping |-> shipping],
                    IF v # "ok" THEN CheckoutResponse(v) ELSE Pending)
    /\ UNCHANGED <<inStock, orders, shippingRows, wh, fb>>

\* tx.product.findUnique and the two checks on its result
CheckoutFind(c) ==
    /\ co[c].pc = "find"
    /\ LET item == co[c].products[co[c].i] IN
         IF item.productId \notin Products
         THEN Rollback(c, "NotFound")
         ELSE IF NotEnoughStock(TxRead(c, item.productId), item.quantity)
         THEN Rollback(c, "InsufficientStock")
         ELSE /\ co' = [co EXCEPT ![c].pc = "update",
                                   ![c].product = TxRead(c, item.productId)]
              /\ cur' = cur
    /\ UNCHANGED <<inStock, orders, shippingRows, wh, fb, pre>>

\* tx.product.update: waits for the row's lock, then writes the value computed
\* from the row as it was read
CheckoutUpdate(c) ==
    /\ co[c].pc = "update"
    /\ LET item == co[c].products[co[c].i] IN
         /\ ~LockedByOther(c, item.productId)
         /\ co' = [co EXCEPT
              ![c].view[item.productId] = Decrement(co[c].product, item.quantity),
              ![c].locks = @ \cup {item.productId},
              ![c].product = 0,
              ![c].i = @ + 1,
              ![c].pc = IF co[c].i = Len(co[c].products) THEN "create" ELSE "find"]
    /\ UNCHANGED <<inStock, orders, shippingRows, wh, fb, cur, pre>>

\* Two transactions each wait for a row the other has locked: the engine
\* makes one of them fail, and its callback throws.
CheckoutDeadlock(c) ==
    /\ co[c].pc = "update"
    /\ \E d \in Checkouts \ {c} :
         /\ co[d].pc = "update"
         /\ co[c].products[co[c].i].productId \in co[d].locks
         /\ co[d].products[co[d].i].productId \in co[c].locks
    /\ Rollback(c, "DbError")
    /\ UNCHANGED <<inStock, orders, shippingRows, wh, fb, pre>>

\* tx.shippingDetails.create, tx.order.create, the total of the line items,
\* and the commit
CheckoutCommit(c) ==
    /\ co[c].pc = "create"
    /\ inStock' = Committed(c)
    /\ shippingRows' = shippingRows + 1
    /\ orders' = Append(orders, NewOrder(co[c].products, shippingRows + 1))
    /\ co' = [co EXCEPT ![c] = [IdleCheckout EXCEPT
                !.pc = "fetch", !.order = Len(orders) + 1,
                !.totalAmount = TotalAmount[co[c].products]]]
    /\ UNCHANGED <<wh, fb, cur, pre>>

\* fetch("https://api.flutterwave.com/v3/payments") and the response
CheckoutFetch(c, flutterwave) ==
    /\ co[c].pc = "fetch"
    /\ co' = [co EXCEPT ![c] = [IdleCheckout EXCEPT !.pc = "done"]]
    /\ cur' = AnsweredAfterCall(c, CheckoutResponse(PaymentResult(flutterwave)),
                                PaymentPayload(c), flutterwave)
    /\ UNCHANGED <<inStock, orders, shippingRows, wh, fb, pre>>

\* ------------------------------------------------------- webhook helpers
\* No task of the delivery has thrown.
NoTask == 0

IdleHook ==
    [pc |-> "idle", signature |-> "none", type |-> "none", token |-> NoOrder,
     tasks |-> <<>>, rejected |-> NoTask]

\* new NextResponse(`Webhook Error: ...`, { status: 400 }) for a signature
\* that does not verify; new NextResponse(null, { status: 200 }) otherwise,
\* whatever console.error was given
WebhookResponse(verified, logged) ==
    IF verified THEN [status |-> 200, body |-> "null", logged |-> logged]
    ELSE [status |-> 400, body |-> "Webhook Error", logged |-> "none"]

\* The event is parsed from the body and the signature never compared.
ConstructEventUnverified(signature) == TRUE

\* stripe.webhooks.constructEvent(body, signature, secret): throws unless the
\* signature was computed over the body with the shared secret
ConstructEvent(signature) == signature = "processor"

\* Every event that verifies is handled as a completed checkout.
EveryEventCompletes(type) == TRUE

\* if (event.type === "checkout.session.completed")
IsCheckoutCompleted(type) == type = "checkout.session.completed"

\* Whether the storage engine answers the handler's first query: a call of
\* prismadb throws when it does not.
StorageStates == {"up", "down"}

\* The update flips the flag instead of setting it.
MarkToggled(rows, id) == [rows EXCEPT ![id].isPaid = ~@]

\* prismadb.order.update({ where: { id }, data: { isPaid: true, ... } })
MarkPaid(rows, id) == [rows EXCEPT ![id].isPaid = TRUE]

\* where: { id } matches a row
OrderExists(id) == id \in 1 .. Len(orders)

\* The task writes the stock without comparing it with the quantity.
NotEnoughItemsUnchecked(stock, quantity) == FALSE

\* if (product.inStock < orderItem.quantity) throw
NotEnoughItems(stock, quantity) == stock < quantity

\* data: { inStock: product.inStock - orderItem.quantity }
Deduct(stock, quantity) == stock - quantity

\* Promise.all rejects with the error of the first task to throw, and that
\* is the error the catch logs; what a later task throws goes nowhere.
FirstRejection(h, k) == IF wh[h].rejected = NoTask THEN k ELSE wh[h].rejected

\* order.orderItems.map(async ...): one task per OrderItem, all started
StartTasks(items) == [k \in 1 .. Len(items) |-> [st |-> "find", product |-> 0]]

\* A row a checkout transaction has updated cannot be written until it ends.
RowLocked(p) == \E c \in Checkouts : InTx(c) /\ p \in co[c].locks

TasksSettled(h) == \A k \in 1 .. Len(wh[h].tasks) : wh[h].tasks[k].st \in {"done", "failed"}
TaskFailed(h)   == \E k \in 1 .. Len(wh[h].tasks) : wh[h].tasks[k].st = "failed"
TasksDone(h)    == \A k \in 1 .. Len(wh[h].tasks) : wh[h].tasks[k].st = "done"

\* --------------------------------------------------------- webhook: POST
\* The delivery arrives: the signature check, the event type, and the order
\* update with its orderItems read back, which throws when the storage
\* engine cannot be reached or no row has the id; the catch logs it.  A delivery that ends here keeps
\* only its response; one that goes on keeps the session it acts on.
WebhookDeliver(h, signature, type, token, storage, watch) ==
    /\ wh[h].pc = "idle"
    /\ LET req == [signature |-> signature, type |-> type, token |-> token] IN
       IF ~ConstructEvent(signature)
       THEN /\ wh' = [wh EXCEPT ![h] = [IdleHook EXCEPT !.pc = "done"]]
            /\ orders' = orders
            /\ Observe(watch, h, req, WebhookResponse(FALSE, "none"))
       ELSE IF ~IsCheckoutCompleted(type)
       THEN /\ wh' = [wh EXCEPT ![h] = [IdleHook EXCEPT !.pc = "done"]]
            /\ orders' = orders
            /\ Observe(watch, h, req, WebhookResponse(TRUE, "none"))
       ELSE IF storage = "down"
       THEN /\ wh' = [wh EXCEPT ![h] = [IdleHook EXCEPT !.pc = "done"]]
            /\ orders' = orders
            /\ Observe(watch, h, req, WebhookResponse(TRUE, "DbError"))
       ELSE IF ~OrderExists(token)
       THEN /\ wh' = [wh EXCEPT ![h] = [IdleHook EXCEPT !.pc = "done"]]
            /\ orders' = orders
            /\ Observe(watch, h, req, WebhookResponse(TRUE, "OrderNotFound"))
       ELSE /\ wh' = [wh EXCEPT ![h] = [IdleHook EXCEPT !.pc = "items",
                         !.signature = signature, !.type = type, !.token = token,
                         !.tasks = StartTasks(orders[token].orderItems)]]
            /\ orders' = MarkPaid(orders, token)
            /\ Observe(watch, h, req, Pending)
    /\ UNCHANGED <<inStock, shippingRows, co, fb>>

\* prismadb.product.findUnique of one OrderItem's task, and the two checks
WebhookFind(h, k) ==
    /\ wh[h].pc \in {"items", "done"}
    /\ k \in 1 .. Len(wh[h].tasks)
    /\ wh[h].tasks[k].st = "find"
    /\ LET item == orders[wh[h].token].orderItems[k] IN
         IF item.productId \notin Products
         THEN wh' = [wh EXCEPT ![h].tasks[k].st = "failed",
                               ![h].rejected = FirstRejection(h, k)]
         ELSE IF NotEnoughItems(inStock[item.productId], item.quantity)
         THEN wh' = [wh EXCEPT ![h].tasks[k].st = "failed",
                               ![h].rejected = FirstRejection(h, k)]
         ELSE wh' = [wh EXCEPT ![h].tasks[k] =
                        [st |-> "update", product |-> inStock[item.productId]]]
    /\ UNCHANGED <<inStock, orders, shippingRows, co, fb, cur, pre>>

\* prismadb.product.update of one OrderItem's task
WebhookUpdate(h, k) ==
    /\ wh[h].pc \in {"items", "done"}
    /\ k \in 1 .. Len(wh[h].tasks)
    /\ wh[h].tasks[k].st = "update"
    /\ LET item == orders[wh[h].token].orderItems[k] IN
         /\ ~RowLocked(item.productId)
         /\ inStock' = [inStock EXCEPT ![item.productId] =
                           Deduct(wh[h].tasks[k].product, item.quantity)]
    /\ wh' = [wh EXCEPT ![h].tasks[k] = [st |-> "done", product |-> 0]]
    /\ UNCHANGED <<orders, shippingRows, co, fb, cur, pre>>

\* await Promise.all(productUpdates) settles: every task fulfilled, or one
\* rejected (the catch logs it); the tasks still running go on.
WebhookRespond(h) ==
    /\ wh[h].pc = "items"
    /\ TasksDone(h) \/ TaskFailed(h)
    /\ wh' = [wh EXCEPT ![h].pc = "done"]
    /\ cur' = Answered(h, WebhookResponse(TRUE,
                            IF TaskFailed(h) THEN "ItemError" ELSE "none"))
    /\ UNCHANGED <<inStock, orders, shippingRows, co, fb, pre>>

\* ------------------------------------------- paymentWebhook (checkout file)
Events   == {"charge.completed", "charge.failed"}
Statuses == {"successful", "failed"}
TxRefs   == {"order_1_17", "order_2_17", "order_9_17", "refund_17"}
NoMatch  == -1

\* tx_ref.match(/order_(.+)_\d+/): the order id between the prefix and the
\* timestamp, or no match
OrderIdMatch(tx_ref) ==
    CASE tx_ref = "order_1_17" -> 1
      [] tx_ref = "order_2_17" -> 2
      [] tx_ref = "order_9_17" -> 9
      [] OTHER -> NoMatch

\* The response of paymentWebhook, and whether it reaches the order update.
PaymentWebhookStatus(event, status, tx_ref) ==
    IF event # "charge.completed" THEN 400
    ELSE IF status # "successful" THEN 400
    ELSE IF OrderIdMatch(tx_ref) = NoMatch THEN 400
    ELSE IF ~OrderExists(OrderIdMatch(tx_ref)) THEN 500
    ELSE 200

PaymentWebhook(f, event, status, tx_ref, watch) ==
    /\ fb[f] = "idle"
    /\ LET code == PaymentWebhookStatus(event, status, tx_ref) IN
         /\ fb' = [fb EXCEPT ![f] = "done"]
         /\ orders' = IF code = 200 THEN MarkPaid(orders, OrderIdMatch(tx_ref))
                      ELSE orders
         /\ Observe(watch, f, [event |-> event, status |-> status, tx_ref |-> tx_ref],
                    [status |-> code, body |-> "text", logged |-> "none"])
    /\ UNCHANGED <<inStock, shippingRows, co, wh>>

\* ------------------------------------------------------------ the system
\* Every product starts with the same number of units; the requests make
\* the stocks differ.
InitialStock(most) == {[p \in Products |-> s] : s \in 0 .. most}

Start(stock) ==
    /\ inStock \in stock
    /\ orders = <<>>
    /\ shippingRows = 0
    /\ co = [c \in Checkouts |-> IdleCheckout]
    /\ wh = [h \in Hooks |-> IdleHook]
    /\ fb = [f \in Fallbacks |-> "idle"]
    /\ cur = [x \in {} |-> 0]
    /\ pre = [inStock |-> inStock, orders |-> <<>>, shippingRows |-> 0]

Init == Start(InitialStock(MaxStock))

\* Requests handled in turn leave room for a deeper stock: an order's units
\* can then be taken at checkout and again by each of two deliveries, and an
\* order of two lines for one product can find both lines in stock when it
\* is confirmed.
InitDeep == Start(InitialStock(DeepStock))

\* Requests are interchangeable: an arriving one takes a fixed free slot.
FreeCheckout(c) == co[c].pc = "idle" /\ c = CHOOSE x \in Checkouts : co[x].pc = "idle"
FreeHook(h)     == wh[h].pc = "idle" /\ h = CHOOSE x \in Hooks : wh[x].pc = "idle"

\* The requests being handled: a delivery is, until its last task settles.
InFlight ==
    {c \in Checkouts : co[c].pc \notin {"idle", "done"}}
    \cup {h \in Hooks : wh[h].pc = "items" \/ (wh[h].pc = "done" /\ ~TasksSettled(h))}

\* No request is being handled.
Quiescent == InFlight = {}

\* The server takes another request.
Admits == Cardinality(InFlight) < MaxInFlight

\* The steps of a checkout that has arrived.
CheckoutStep ==
    \/ \E c \in Checkouts : CheckoutFind(c)
    \/ \E c \in Checkouts : CheckoutUpdate(c)
    \/ \E c \in Checkouts : CheckoutCommit(c)
    \/ \E c \in Checkouts, r \in FlutterwaveReplies : CheckoutFetch(c, r)

\* The steps of a delivery that has arrived.
WebhookStep ==
    \/ \E h \in Hooks, k \in 1 .. MaxCart : WebhookFind(h, k)
    \/ \E h \in Hooks, k \in 1 .. MaxCart : WebhookUpdate(h, k)
    \/ \E h \in Hooks : WebhookRespond(h)

CheckoutArrives(watch) ==
    \E c \in Checkouts, products \in Carts, shipping \in BOOLEAN :
        FreeCheckout(c) /\ CheckoutBegin(c, products, shipping, watch)

DeliveryArrives(watch) ==
    \E h \in Hooks, s \in Signatures, t \in EventTypes, o \in Tokens,
       d \in StorageStates :
        FreeHook(h) /\ WebhookDeliver(h, s, t, o, d, watch)

FallbackArrives(watch) ==
    \E f \in Fallbacks, e \in Events, s \in Statuses, r \in TxRefs :
        PaymentWebhook(f, e, s, r, watch)

\* Requests are handled concurrently.
Next ==
    \/ Admits /\ CheckoutArrives("none")
    \/ Admits /\ DeliveryArrives("none")
    \/ Admits /\ FallbackArrives("none")
    \/ CheckoutStep
    \/ WebhookStep
    \/ \E c \in Checkouts : CheckoutDeadlock(c)

Spec == Init /\ [][Next]_vars

\* Requests are handled one at a time: one arrives when none is in flight.
NextSeq ==
    \/ Quiescent /\ CheckoutArrives("last")
    \/ Quiescent /\ DeliveryArrives("last")
    \/ Quiescent /\ FallbackArrives("last")
    \/ CheckoutStep
    \/ WebhookStep

SpecSeq == InitDeep /\ [][NextSeq]_vars

\* Checkout calls alone, handled concurrently.
NextRace ==
    \/ Admits /\ CheckoutArrives("all")
    \/ CheckoutStep
    \/ \E c \in Checkouts : CheckoutDeadlock(c)

SpecRace == Init /\ [][NextRace]_vars

\* ================================================================ claims
\* What the properties say of an observed request.
Answer(id)    == cur[id].res
IsAnswered(id) == id \in DOMAIN cur /\ cur[id].res.body # "pending"

\* The units of product p a list of lines asks for.
RECURSIVE SumQty(_, _, _)
SumQty(items, p, n) ==
    IF n = 0 THEN 0
    ELSE SumQty(items, p, n - 1)
         + (IF items[n].productId = p THEN items[n].quantity ELSE 0)
Ordered(items, p) == SumQty(items, p, Len(items))

\* The checkout's transaction committed: it was answered after the commit.
AnsweredAfterCommit(id) == Answer(id).body \in {"url", "ProcessorError"}

\* ---------------------------------------------------------------- C1
\* Two checkout calls, each with one line for the same product, each
\* quantity within the stock and the two together above it.
RaceFor(c, d, p) ==
    /\ c # d /\ IsAnswered(c) /\ IsAnswered(d)
    /\ cur[c].req.shipping /\ cur[d].req.shipping
    /\ Len(cur[c].req.products) = 1 /\ Len(cur[d].req.products) = 1
    /\ cur[c].req.products[1].productId = p
    /\ cur[d].req.products[1].productId = p
    /\ cur[c].req.products[1].quantity <= pre.inStock[p]
    /\ cur[d].req.products[1].quantity <= pre.inStock[p]
    /\ cur[c].req.products[1].quantity + cur[d].req.products[1].quantity
          > pre.inStock[p]

\* C1: of two concurrent checkout calls for the same product whose quantities
\* together exceed the stock (each alone within it), under every interleaving
\* exactly one commits an order and the other fails with InsufficientStock,
\* and the final inStock is not negative.
C1_ExactlyOneCheckoutWins ==
    \A c \in Checkouts, d \in Checkouts, p \in Products :
        RaceFor(c, d, p) =>
            /\ \/ AnsweredAfterCommit(c) /\ Answer(d).body = "InsufficientStock"
               \/ AnsweredAfterCommit(d) /\ Answer(c).body = "InsufficientStock"
            /\ Len(orders) = 1
            /\ inStock[p] >= 0

\* ---------------------------------------------------------------- C2
\* C2: in every reachable state every Product has inStock >= 0, in the
\* committed rows and in what a transaction has written and not yet
\* committed; a write that would go below zero is not made.
C2_StockNeverNegative ==
    /\ \A p \in Products : inStock[p] >= 0
    /\ \A c \in Checkouts, p \in Products : co[c].view[p] >= 0

\* A delivery's task gave up on a product with fewer units than its
\* OrderItem asks for, and a checkout and a delivery have both written stock.
C2_Witness ==
    \E h \in Hooks : \E k \in 1 .. Len(wh[h].tasks) :
        LET item == orders[wh[h].token].orderItems[k] IN
          /\ wh[h].tasks[k].st = "failed"
          /\ inStock[item.productId] < item.quantity
          /\ \E j \in 1 .. Len(wh[h].tasks) : wh[h].tasks[j].st = "done"

\* ---------------------------------------------------------------- C3
\* A checkout call answered, with shipping details, one of whose lines asks
\* for more units of an existing product than it had when the call arrived.
Oversells(c) ==
    /\ IsAnswered(c) /\ cur[c].req.shipping
    /\ \E k \in 1 .. Len(cur[c].req.products) :
         LET item == cur[c].req.products[k] IN
           item.productId \in Products /\ item.quantity > pre.inStock[item.productId]

AllKnown(products) == \A k \in 1 .. Len(products) : products[k].productId \in Products

\* C3 as claimed: every such call fails with InsufficientStock and leaves the
\* storage as it found it.
C3_Original ==
    \A c \in Checkouts :
        Oversells(c) => Answer(c).body = "InsufficientStock" /\ Storage = pre

\* C3: every such call fails and leaves the storage as it found it (no
\* inStock changed, no Order, OrderItem or ShippingDetails row created); the
\* error is InsufficientStock when every line names an existing product, and
\* InsufficientStock or NotFound, whichever check fails first, otherwise.
C3_OversellRollsBack ==
    \A c \in Checkouts :
        Oversells(c) =>
            /\ Storage = pre
            /\ Answer(c).status = 400
            /\ IF AllKnown(cur[c].req.products)
               THEN Answer(c).body = "InsufficientStock"
               ELSE Answer(c).body \in {"InsufficientStock", "NotFound"}

\* The second line oversells after the first passed its check and was
\* written inside the transaction.
C3_Witness ==
    \E c \in Checkouts :
        /\ Oversells(c)
        /\ Len(cur[c].req.products) = 2
        /\ cur[c].req.products[1].productId \in Products
        /\ cur[c].req.products[1].quantity <= pre.inStock[cur[c].req.products[1].productId]
        /\ cur[c].req.products[2].productId \in Products
        /\ cur[c].req.products[2].quantity > pre.inStock[cur[c].req.products[2].productId]
        /\ Answer(c).body = "InsufficientStock"

\* ---------------------------------------------------------------- C4
\* A checkout call answered, with shipping details and a non-empty cart of
\* existing products.
Shops(c) ==
    /\ IsAnswered(c) /\ cur[c].req.shipping
    /\ Len(cur[c].req.products) >= 1
    /\ AllKnown(cur[c].req.products)

\* The rows the committed transaction of c leaves: one unpaid order with one
\* OrderItem per line, and the stock less the units ordered.
CommittedRows(c) ==
    /\ Len(orders) = Len(pre.orders) + 1
    /\ \A o \in 1 .. Len(pre.orders) : orders[o] = pre.orders[o]
    /\ orders[Len(orders)].isPaid = FALSE
    /\ orders[Len(orders)].orderItems = cur[c].req.products
    /\ shippingRows = pre.shippingRows + 1
    /\ \A p \in Products :
         inStock[p] = pre.inStock[p] - Ordered(cur[c].req.products, p)

\* C4 as claimed: when every line's quantity is within its product's stock the
\* call succeeds with a checkout URL, the order is created and the stock falls
\* by the quantities ordered.
C4_Original ==
    \A c \in Checkouts :
        (Shops(c) /\ \A k \in 1 .. Len(cur[c].req.products) :
             cur[c].req.products[k].quantity
                <= pre.inStock[cur[c].req.products[k].productId])
        => Answer(c).body = "url" /\ CommittedRows(c)

\* C4: when, for every product, the lines of the cart together ask for no
\* more than its stock, the transaction commits (the unpaid order with one
\* OrderItem per line is created, each product's stock falls by the units
\* ordered); the answer is the checkout URL, or the processor's error when the
\* payment-link request fails.
C4_InStockCartCommits ==
    \A c \in Checkouts :
        (Shops(c) /\ \A p \in Products :
             Ordered(cur[c].req.products, p) <= pre.inStock[p])
        => AnsweredAfterCommit(c) /\ CommittedRows(c)

\* A cart of two lines got its URL and took stock.
C4_Witness ==
    \E c \in Checkouts :
        /\ Shops(c) /\ Len(cur[c].req.products) = 2
        /\ \A p \in Products : Ordered(cur[c].req.products, p) <= pre.inStock[p]
        /\ Answer(c).body = "url"
        /\ inStock # pre.inStock
\* ---------------------------------------------------------------- C5
\* A signed "checkout completed" delivery for order o, handled to its last
\* task with the storage engine in reach.
Confirms(h, o) ==
    /\ IsAnswered(h)
    /\ cur[h].req.signature = "processor"
    /\ cur[h].req.type = "checkout.session.completed"
    /\ cur[h].req.token = o
    /\ Answer(h).logged # "DbError"
    /\ wh[h].pc = "done" /\ TasksSettled(h)

\* An earlier delivery of the same notification was handled.
DeliveredBefore(h, o) ==
    \E g \in Hooks \ {h} :
        wh[g].pc = "done" /\ wh[g].signature = "processor" /\ wh[g].token = o

\* C5: the second of two deliveries in sequence of the same signed "checkout
\* completed" notification finds the order paid, changes no Product.inStock,
\* leaves isPaid = true and is acknowledged with success.
C5_SecondDeliveryChangesNoStock ==
    \A h \in Hooks, o \in OrderIds :
        (Confirms(h, o) /\ o <= Len(pre.orders) /\ pre.orders[o].isPaid
            /\ DeliveredBefore(h, o))
        => /\ inStock = pre.inStock
           /\ orders[o].isPaid
           /\ Answer(h).status = 200

\* ---------------------------------------------------------------- C6
\* The deliveries whose task for OrderItem k of order o wrote the stock.
Deducted(o, k) ==
    {h \in Hooks : /\ wh[h].token = o
                   /\ k <= Len(wh[h].tasks)
                   /\ wh[h].tasks[k].st = "done"}

\* C6: when deliveries of the same "checkout completed" notification are
\* handled concurrently, under every interleaving each OrderItem's quantity
\* is subtracted from its product's stock once in total.
C6_DuplicatesDeductOnce ==
    \A o \in 1 .. Len(orders) : \A k \in 1 .. Len(orders[o].orderItems) :
        Cardinality(Deducted(o, k)) <= 1

\* ---------------------------------------------------------------- C7
\* C7: a notification whose signature fails verification is answered 400 on
\* arrival and leaves every Order and Product row as it was, whatever event
\* type and correlation token it carries; no task is started for it.
C7_BadSignatureTouchesNothing ==
    \A h \in Hooks :
        (h \in DOMAIN cur /\ cur[h].req.signature # "processor")
        => /\ Answer(h).status = 400
           /\ Storage = pre
           /\ wh[h].pc = "done" /\ wh[h].tasks = <<>>

\* A forged "checkout completed" notification naming an existing unpaid
\* order was turned away.
C7_Witness ==
    \E h \in Hooks :
        /\ h \in DOMAIN cur
        /\ cur[h].req.signature = "forged"
        /\ cur[h].req.type = "checkout.session.completed"
        /\ cur[h].req.token \in 1 .. Len(orders)
        /\ ~orders[cur[h].req.token].isPaid
        /\ Answer(h).status = 400

\* ---------------------------------------------------------------- C8
\* C8: an Order has isPaid = true only if a notification carrying its
\* correlation token passed signature verification.
C8_PaidOnlyBySignedNotification ==
    \A o \in 1 .. Len(orders) :
        orders[o].isPaid =>
            \E h \in Hooks : wh[h].token = o /\ wh[h].signature = "processor"

\* ---------------------------------------------------------------- C9
\* C9: a signed "checkout completed" notification whose correlation token
\* matches no Order is answered with the OrderNotFound error and changes no
\* Order and no Product row.
C9_UnknownOrderIsAnError ==
    \A h \in Hooks :
        (/\ IsAnswered(h)
         /\ cur[h].req.signature = "processor"
         /\ cur[h].req.type = "checkout.session.completed"
         /\ cur[h].req.token \notin 1 .. Len(pre.orders))
        => /\ Answer(h).status # 200
           /\ Storage = pre

\* --------------------------------------------------------------- C10
\* C10: an order is created with isPaid = false, and an order that is paid
\* stays paid in every later state.
C10_IsPaidMonotonic ==
    [][/\ Len(orders') >= Len(orders)
       /\ \A o \in 1 .. Len(orders) : orders[o].isPaid => orders'[o].isPaid
       /\ \A o \in (Len(orders) + 1) .. Len(orders') : ~orders'[o].isPaid]_vars

\* A paid order for which a second delivery and the unsigned paymentWebhook
\* have both been handled.
C10_Witness ==
    \E o \in 1 .. Len(orders) :
        /\ orders[o].isPaid
        /\ \A h \in Hooks : wh[h].pc = "done" /\ wh[h].token = o
        /\ \A f \in Fallbacks : fb[f] = "done"

\* --------------------------------------------------------------- C11
\* Task k of the delivery found fewer units than its OrderItem asks for.
ShortAt(h, k) == k \in 1 .. Len(wh[h].tasks) /\ wh[h].tasks[k].st = "failed"

\* C11: when a signed "checkout completed" notification is handled and an
\* OrderItem's product has fewer units than the item asks for, the order ends
\* paid (the confirmation is not rolled back), the delivery is acknowledged,
\* and the shortfall of that item is logged.
C11_ShortfallLoggedOrderStaysPaid ==
    \A h \in Hooks, o \in OrderIds : \A k \in 1 .. MaxCart :
        (Confirms(h, o) /\ ShortAt(h, k))
        => /\ orders[o].isPaid
           /\ Answer(h).status = 200
           /\ Answer(h).logged = "ItemError"
           /\ wh[h].rejected = k

\* --------------------------------------------------------------- C12
\* The payment-link request of the checkout was made and did not succeed.
LinkFailed(c) ==
    IsAnswered(c) /\ cur[c].call.reply \in FlutterwaveReplies \ {"success"}

\* C12: when the payment-link request fails or is answered with a status
\* other than success, after the transaction committed, the call returns an
\* error and no URL, and the committed rows stay: the order unpaid, the stock
\* of its items decremented, the shipping details row in place.
C12_ProcessorFailureKeepsRows ==
    \A c \in Checkouts :
        LinkFailed(c) =>
            /\ Answer(c).status = 400
            /\ Answer(c).body = "ProcessorError"
            /\ CommittedRows(c)

\* The processor could not be reached after a cart of two lines took stock.
C12_Witness ==
    \E c \in Checkouts :
        /\ LinkFailed(c) /\ cur[c].call.reply = "unreachable"
        /\ Len(cur[c].req.products) = 2
        /\ inStock # pre.inStock
        /\ ~orders[Len(orders)].isPaid

\* --------------------------------------------------------------- C13
\* The call was answered before any request of the payment processor: it
\* failed validation or its transaction rolled back, and no order exists.
NeverCreated(c) ==
    IsAnswered(c) /\ Answer(c).status # 200 /\ cur[c].call.reply = "none"

\* The kind of an error response: what it carries beside the text of the
\* message, which is the status code and the form of the body.
ErrorKind(res) == [status |-> res.status, form |-> res.form]

\* C13: a call whose order was never created and a call whose order was
\* created and whose payment link failed are never answered with the same
\* kind of error.
C13_ErrorKindsTellCreatedFromNot ==
    \A c \in Checkouts, d \in Checkouts :
        (NeverCreated(c) /\ LinkFailed(d))
        => ErrorKind(Answer(c)) # ErrorKind(Answer(d))

\* --------------------------------------------------------------- C14
\* A signed delivery, observed and answered.
SignedAnswered(h) == IsAnswered(h) /\ cur[h].req.signature = "processor"

\* C14: a signed notification is answered with a retryable failure code
\* when a storage failure stops the handler, never with the success
\* acknowledgment, and with the success acknowledgment when the handler
\* turns it down for a business reason or does not act on it.
C14_StorageFailureIsRetryable ==
    \A h \in Hooks :
        SignedAnswered(h) =>
            /\ Answer(h).logged = "DbError" => Answer(h).status >= 500
            /\ Answer(h).logged # "DbError" => Answer(h).status = 200

\* --------------------------------------------------------------- C15
\* A signed delivery of an event other than "checkout completed".
OtherEvent(h) ==
    /\ h \in DOMAIN cur
    /\ cur[h].req.signature = "processor"
    /\ cur[h].req.type # "checkout.session.completed"

\* C15: a signed notification of another event type is acknowledged with
\* success and leaves every Order and Product row as it was, whatever
\* correlation token it carries; no task is started for it.
C15_OtherEventsChangeNothing ==
    \A h \in Hooks :
        OtherEvent(h) =>
            /\ Answer(h).status = 200
            /\ Storage = pre
            /\ wh[h].pc = "done" /\ wh[h].tasks = <<>>

\* Such a notification carried the token of an existing unpaid order.
C15_Witness ==
    \E h \in Hooks :
        /\ OtherEvent(h)
        /\ cur[h].req.token \in 1 .. Len(orders)
        /\ ~orders[cur[h].req.token].isPaid
        /\ Answer(h).status = 200

\* --------------------------------------------------------------- C16
\* The checkout's transaction committed and the payment link was requested.
Requested(c) == IsAnswered(c) /\ cur[c].call.reply \in FlutterwaveReplies

\* The cents a cart costs: the sum over its lines of price x quantity.
RECURSIVE CentsFrom(_, _)
CentsFrom(items, n) ==
    IF n = 0 THEN 0
    ELSE CentsFrom(items, n - 1) + Price[items[n].productId] * items[n].quantity
Cents(items) == CentsFrom(items, Len(items))

\* C16: for every checkout whose transaction commits, the amount sent to the
\* payment processor is the sum over the cart's lines of price x quantity
\* (the Number that stands for that many cents), and the order id sent with
\* it is the id of the order that transaction created.
C16_AmountIsSumOfLines ==
    \A c \in Checkouts :
        Requested(c) =>
            /\ cur[c].call.payload.amount = ToNumber(Cents(cur[c].req.products))
            /\ cur[c].call.payload.orderId = Len(pre.orders) + 1

\* --------------------------------------------------------------- C17
\* Order o was created by the only checkout that has committed, and h is the
\* only notification handled since: a signed "checkout completed" for o.
CheckoutThenConfirmation(h, o) ==
    /\ Confirms(h, o)
    /\ o = 1 /\ Len(orders) = 1 /\ Len(pre.orders) = 1 /\ ~pre.orders[o].isPaid
    /\ \A g \in Hooks \ {h} : wh[g].pc = "idle"
    /\ \A f \in Fallbacks : fb[f] = "idle"

\* The stock before the checkout of o: what the notification found, and the
\* units the checkout's transaction had taken.
StockBeforeCheckout(o, p) == pre.inStock[p] + Ordered(pre.orders[o].orderItems, p)

\* C17: after a checkout and the one notification that confirms its payment,
\* every product's stock is its stock before the checkout less the units
\* ordered: the units are taken once over the order's lifecycle.
C17_UnitsTakenOnceOverLifecycle ==
    \A h \in Hooks, o \in OrderIds :
        CheckoutThenConfirmation(h, o) =>
            \A p \in Products :
                inStock[p] = StockBeforeCheckout(o, p) - Ordered(orders[o].orderItems, p)

\* --------------------------------------------------------------- C18
\* Order o holds more than one OrderItem for product p.
SeveralItemsFor(o, p) ==
    Cardinality({k \in 1 .. Len(orders[o].orderItems) :
                    orders[o].orderItems[k].productId = p}) > 1

\* C18: when one "checkout completed" notification is handled for an order
\* with several OrderItems for one product, and the product has at least the
\* units they ask for together, its stock falls by the sum of their
\* quantities, however the tasks' reads and writes interleave.
C18_EveryItemOfOneProductDeducted ==
    \A h \in Hooks, o \in OrderIds, p \in Products :
        (/\ Confirms(h, o) /\ o \in 1 .. Len(pre.orders)
         /\ SeveralItemsFor(o, p)
         /\ pre.inStock[p] >= Ordered(orders[o].orderItems, p))
        => inStock[p] = pre.inStock[p] - Ordered(orders[o].orderItems, p)

\* --------------------------------------------------------------- C19
\* A checkout call answered, with shipping details and a cart of existing
\* products that lists a product on more than one line.
RepeatsProduct(c) ==
    /\ Shops(c)
    /\ \E j \in 1 .. Len(cur[c].req.products), k \in 1 .. Len(cur[c].req.products) :
          j # k /\ cur[c].req.products[j].productId = cur[c].req.products[k].productId

\* For every product, the lines of the cart together are within the stock
\* the call found.
SumsFit(c) ==
    \A p \in Products : Ordered(cur[c].req.products, p) <= pre.inStock[p]

\* C19: a cart that lists a product on several lines has each line checked
\* against the stock as the earlier lines left it: the transaction commits
\* exactly when every product's lines together are within its stock, the
\* stock then falls by that sum, and otherwise the call fails with
\* InsufficientStock and changes nothing.
C19_RepeatedLinesCheckedAgainstReducedStock ==
    \A c \in Checkouts :
        RepeatsProduct(c) =>
            /\ AnsweredAfterCommit(c) <=> SumsFit(c)
            /\ SumsFit(c) => CommittedRows(c)
            /\ ~SumsFit(c) => Answer(c).body = "InsufficientStock" /\ Storage = pre

\* Two lines, each within the stock and together above it, were refused.
C19_Witness ==
    \E c \in Checkouts :
        /\ RepeatsProduct(c) /\ ~SumsFit(c)
        /\ \A k \in 1 .. Len(cur[c].req.products) :
              cur[c].req.products[k].quantity
                 <= pre.inStock[cur[c].req.products[k].productId]
        /\ Answer(c).body = "InsufficientStock"

====
